---- MODULE Spec2Model ----
(***************************************************************************)
(* Model of the TopDesk gateway (function_app.py): the TopDeskClient, the  *)
(* Basic-Auth dependency verify_basic_auth, get_topdesk_client and the six *)
(* GET routes.                                                             *)
(*                                                                         *)
(* Conventions.  A Python str is a sequence of code points.  An Optional   *)
(* value is a set with at most one element (None is {}).  A JSON value is  *)
(* a record [t, items, members]: t is "array" (items: the records),        *)
(* "object" (members: set of [k, v]) or "invalid" (a body that does not    *)
(* decode).  Each worker slot handles one inbound request at a time.       *)
(***************************************************************************)
EXTENDS Integers, Sequences, FiniteSets, TLC

VARIABLES
    env,            \* process environment: variable name -> Optional str
    API_USERNAME,   \* module-level expected caller username (set at load)
    API_PASSWORD,   \* module-level expected caller password (set at load)
    pc,             \* slot -> position of the request handled in the slot
    req,            \* slot -> inbound request
    client,         \* slot -> Optional TopDeskClient built for the request
    outbound,       \* slot -> sequence of outbound GETs issued for the request
    answer,         \* slot -> Optional upstream answer to the outbound GET
    ret,            \* slot -> Optional outcome of the client method call
    resp            \* slot -> Optional inbound response

vars == <<env, API_USERNAME, API_PASSWORD, pc, req, client, outbound, answer, ret, resp>>

----------------------------------------------------------------------------
(* Bounds and small input sets *)

MaxLen == 3                 \* longest inbound `fields` string

Slots == {1, 2}             \* worker slots handling requests concurrently

None == {}
Some(x) == {x}
Val(o) == CHOOSE x \in o : TRUE

Space == 32
Comma == 44
Whitespace == {9, 10, 11, 12, 13, Space}

IsAscii(s) == \A i \in 1..Len(s) : s[i] < 128

S_apiuser == <<97, 112, 105, 117, 115, 101, 114>>   \* "apiuser"
S_apipass == <<97, 112, 105, 112, 97, 115, 115>>    \* "apipass"
S_aaa == <<97, 97, 97>>                             \* "aaa"
S_all == <<97, 108, 108>>                           \* "all"
S_x == <<120>>                                      \* "x"
S_nonascii == <<241>>                               \* a one-letter non-ASCII str
S_empty == <<>>                                     \* ""

RECURSIVE StringsUpTo(_, _)
StringsUpTo(alphabet, n) ==
    IF n = 0 THEN {<<>>}
    ELSE LET shorter == StringsUpTo(alphabet, n - 1)
         IN shorter \cup {Append(s, c) : s \in {t \in shorter : Len(t) = n - 1}, c \in alphabet}

FieldStrings == StringsUpTo({Space, Comma, 97}, MaxLen)

----------------------------------------------------------------------------
(* JSON values *)

J(t, items, members) == [t |-> t, items |-> items, members |-> members]
JArray(items) == J("array", items, {})
JObject(members) == J("object", <<>>, members)
JInvalid == J("invalid", <<>>, {})
JDetail(msg) == J("detail", <<msg>>, {})

EmptyList == JArray(<<>>)
EmptyObject == JObject({})

EnvelopeKeys == {"dataSet", "results"}
MemberVals == {JArray(<<>>), JArray(<<"R1">>)}

Objects ==
    UNION {{{[k |-> k, v |-> f[k]] : k \in K} : f \in [K -> MemberVals]} : K \in SUBSET EnvelopeKeys}

Bodies == {JObject(m) : m \in Objects} \cup {JArray(<<>>), JArray(<<"R1">>), JInvalid}

HasKey(body, key) == \E m \in body.members : m.k = key
Member(body, key) == (CHOOSE m \in body.members : m.k = key).v

----------------------------------------------------------------------------
(* requests: query-string encoding *)

RECURSIVE Digits(_)
Digits(n) == IF n < 10 THEN <<48 + n>> ELSE Append(Digits(n \div 10), 48 + (n % 10))

\* str(n) as requests applies it to a non-string parameter value
IntToStr(n) == IF n < 0 THEN <<45>> \o Digits(0 - n) ELSE Digits(n)

\* one key of the params dict with a scalar value
Param(k, s) == <<[k |-> k, v |-> s]>>

\* one key of the params dict with a list value: the key repeated per element
RECURSIVE ParamList(_, _)
ParamList(k, lst) ==
    IF lst = <<>> THEN <<>> ELSE <<[k |-> k, v |-> Head(lst)]>> \o ParamList(k, Tail(lst))

Keys(query) == {query[i].k : i \in 1..Len(query)}
ValuesOf(query, key) == SelectSeq(query, LAMBDA e : e.k = key)

----------------------------------------------------------------------------
(* TopDeskClient *)

BaseUrl == <<"https://cartaoelo.topdesk.net", "/", "tas", "/", "api">>

RECURSIVE RStripSlash(_)
RStripSlash(u) ==
    IF u # <<>> /\ u[Len(u)] = "/" THEN RStripSlash(SubSeq(u, 1, Len(u) - 1)) ELSE u

TopDeskClient(base_url, username, password) ==
    [base_url |-> RStripSlash(base_url),
     auth |-> <<username, password>>,
     headers |-> {<<"Accept", "application/json">>}]

Raised == [raised |-> TRUE, val |-> JInvalid]
Returned(v) == [raised |-> FALSE, val |-> v]

\* mutant of PageParams: truthiness tests in place of `is not None`
PageParams_truthy(pageStart, pageSize) ==
    (IF pageStart # None /\ Val(pageStart) # 0
     THEN <<[k |-> "pageStart", v |-> IntToStr(Val(pageStart))]>> ELSE <<>>)
    \o (IF pageSize # None /\ Val(pageSize) # 0
        THEN <<[k |-> "pageSize", v |-> IntToStr(Val(pageSize))]>> ELSE <<>>)

\* the params block shared by list_incidents and get_transaction_assets
PageParams(pageStart, pageSize) ==
    IF pageStart # None \/ pageSize # None
    THEN (IF pageStart # None THEN Param("pageStart", IntToStr(Val(pageStart))) ELSE <<>>)
         \o (IF pageSize # None THEN Param("pageSize", IntToStr(Val(pageSize))) ELSE <<>>)
    ELSE <<>>

\* truthiness of an Optional str / Optional list
Truthy(o) == o # None /\ Val(o) # <<>>

\* resp = session.get(...); resp.raise_for_status(); resp.json()
Fetch(ans) ==
    IF ans.kind = "transport_error" THEN Raised
    ELSE IF ans.status >= 400 /\ ans.status < 600 THEN Raised
    ELSE IF ans.body.t = "invalid" THEN Raised
    ELSE Returned(ans.body)

\* resp.json().get(key, [])
GetOrEmpty(ans, key) ==
    LET got == Fetch(ans)
    IN  IF got.raised THEN Raised
        ELSE IF got.val.t # "object" THEN Raised
        ELSE IF HasKey(got.val, key) THEN Returned(Member(got.val, key))
        ELSE Returned(EmptyList)

Client_list_incidents_req(self, pageStart, pageSize) ==
    [url |-> self.base_url \o <<"/", "incidents">>,
     query |-> PageParams(pageStart, pageSize)]

Client_list_incidents_res(ans) == Fetch(ans)

get_incident_by_id_req(self, incident_id) ==
    [url |-> self.base_url \o <<"/", "incidents", "/", "id", "/", incident_id>>,
     query |-> <<>>]

get_incident_by_id_res(ans) == Fetch(ans)

get_transaction_assets_req(self, template_id, fields, filter, pageStart, pageSize) ==
    [url |-> self.base_url \o <<"/", "assetmgmt", "/", "assets">>,
     query |-> (IF Truthy(template_id) THEN Param("templateId", Val(template_id)) ELSE <<>>)
               \o (IF Truthy(fields) THEN ParamList("field", Val(fields)) ELSE <<>>)
               \o (IF Truthy(filter) THEN Param("$filter", Val(filter)) ELSE <<>>)
               \o PageParams(pageStart, pageSize)]

\* mutant of get_transaction_assets_res: the envelope key of the changes listing
get_transaction_assets_res_results(ans) == GetOrEmpty(ans, "results")

get_transaction_assets_res(ans) == GetOrEmpty(ans, "dataSet")

get_asset_by_id_req(self, asset_id) ==
    [url |-> self.base_url \o <<"/", "assetmgmt", "/", "assets", "/", "id", "/", asset_id>>,
     query |-> <<>>]

get_asset_by_id_res(ans) == Fetch(ans)

Client_list_changes_req(self, fields) ==
    [url |-> self.base_url \o <<"/", "operatorChanges">>,
     query |-> IF Truthy(fields) THEN Param("fields", Val(fields)) ELSE <<>>]

Client_list_changes_res(ans) == GetOrEmpty(ans, "results")

get_change_by_id_req(self, change_id, fields) ==
    [url |-> self.base_url \o <<"/", "operatorChanges", "/", change_id>>,
     query |-> IF Truthy(fields) THEN Param("fields", Val(fields)) ELSE <<>>]

get_change_by_id_res(ans) == Fetch(ans)

\* mutant of session_get: the GET is sent again (a retrying transport)
session_get_retry(sent, self, prepared) ==
    LET get == [url |-> prepared.url, query |-> prepared.query,
                auth |-> self.auth, headers |-> self.headers]
    IN  Append(Append(sent, get), get)

\* self.session.get(url, params=params): one GET carrying the session's auth and headers
session_get(sent, self, prepared) ==
    Append(sent, [url |-> prepared.url, query |-> prepared.query,
                  auth |-> self.auth, headers |-> self.headers])

----------------------------------------------------------------------------
(* Gateway: configuration, authentication, responses *)

\* os.getenv(name, default)
getenv(name, default) == IF env[name] = None THEN default ELSE Val(env[name])

get_topdesk_client ==
    LET user == getenv("TOPDESK_USER", S_aaa)
        password == getenv("TOPDESK_API_KEY", S_aaa)
    IN  IF user = <<>> \/ password = <<>>
        THEN [raised |-> TRUE, val |-> TopDeskClient(BaseUrl, <<>>, <<>>)]
        ELSE [raised |-> FALSE, val |-> TopDeskClient(BaseUrl, user, password)]

\* secrets.compare_digest on two str: TypeError unless both are ASCII
compare_digest(a, b) ==
    IF IsAscii(a) /\ IsAscii(b) THEN [raised |-> FALSE, val |-> (a = b)]
    ELSE [raised |-> TRUE, val |-> FALSE]

Response(status, body, headers) == [status |-> status, body |-> body, headers |-> headers]

Unauthorized ==
    Response(401, JDetail("Incorrect username or password"), {<<"WWW-Authenticate", "Basic">>})
ServerError == Response(500, JDetail("Internal Server Error"), {})
Unprocessable == Response(422, JDetail("Field required"), {})
Ok(body) == Response(200, body, {})

\* mutant of verify_basic_auth: `or` in place of `and`
verify_basic_auth_either(username, password) ==
    LET correct_username == compare_digest(username, API_USERNAME)
        correct_password == compare_digest(password, API_PASSWORD)
    IN  IF correct_username.raised \/ correct_password.raised
        THEN [ok |-> FALSE, resp |-> ServerError]
        ELSE IF ~(correct_username.val \/ correct_password.val)
        THEN [ok |-> FALSE, resp |-> Unauthorized]
        ELSE [ok |-> TRUE, resp |-> Unauthorized]

\* the dependency of every route: "ok", or the response that ends the request
verify_basic_auth(username, password) ==
    LET correct_username == compare_digest(username, API_USERNAME)
        correct_password == compare_digest(password, API_PASSWORD)
    IN  IF correct_username.raised \/ correct_password.raised
        THEN [ok |-> FALSE, resp |-> ServerError]
        ELSE IF ~(correct_username.val /\ correct_password.val)
        THEN [ok |-> FALSE, resp |-> Unauthorized]
        ELSE [ok |-> TRUE, resp |-> Unauthorized]

ListRoutes == {"list_incidents", "list_assets", "list_changes"}
SingleRoutes == {"get_incident", "get_asset", "get_change"}
Routes == ListRoutes \cup SingleRoutes

\* response_model: List[Dict] on the list routes, Dict on the single-resource routes
Serialize(route, value) ==
    IF route \in ListRoutes
    THEN (IF value.t = "array" THEN Ok(value) ELSE ServerError)
    ELSE (IF value.t = "object" THEN Ok(value) ELSE ServerError)

\* mutant of TryReturn: the exception is not caught
TryReturn_uncaught(route, out, empty) ==
    IF out.raised THEN ServerError ELSE Serialize(route, out.val)

\* try: return client.<method>(...)  except Exception: return <empty>
TryReturn(route, out, empty) ==
    IF out.raised THEN Ok(empty) ELSE Serialize(route, out.val)

\* str.strip()
RECURSIVE LStrip(_)
LStrip(s) == IF s # <<>> /\ Head(s) \in Whitespace THEN LStrip(Tail(s)) ELSE s
RECURSIVE RStrip(_)
RStrip(s) ==
    IF s # <<>> /\ s[Len(s)] \in Whitespace THEN RStrip(SubSeq(s, 1, Len(s) - 1)) ELSE s
Strip(s) == RStrip(LStrip(s))

\* str.split(',')
RECURSIVE Split(_)
Split(s) ==
    IF \E i \in 1..Len(s) : s[i] = Comma
    THEN LET i == CHOOSE j \in 1..Len(s) : s[j] = Comma /\ \A h \in 1..(j - 1) : s[h] # Comma
         IN  <<SubSeq(s, 1, i - 1)>> \o Split(SubSeq(s, i + 1, Len(s)))
    ELSE <<s>>

\* mutant of FieldsList: split without strip
FieldsList_nostrip(fields) ==
    IF Truthy(fields) THEN Some(Split(Val(fields))) ELSE None

\* fields_lst of the list_assets route
FieldsList(fields) ==
    IF Truthy(fields)
    THEN (IF Strip(Val(fields)) # <<>> THEN Some(Split(Strip(Val(fields)))) ELSE None)
    ELSE None

----------------------------------------------------------------------------
(* Inbound requests and upstream answers *)

Request(route, username, password, id, pageStart, pageSize, template_id, fields, filter) ==
    [route |-> route, username |-> username, password |-> password, id |-> id,
     pageStart |-> pageStart, pageSize |-> pageSize,
     template_id |-> template_id, fields |-> fields, filter |-> filter]

NoRequest == Request("none", <<>>, <<>>, "", None, None, None, None, None)

Ids == {"123"}
PageVals == {None, Some(0), Some(1)}
StrVals == {None, Some(S_empty), Some(S_x)}
AssetFields == {None} \cup {Some(s) : s \in FieldStrings}
ChangeFields == {None, Some(S_empty), Some(S_all)}

\* what the HTTPBasic security scheme hands to verify_basic_auth (ASCII-decoded)
CallerNames == {S_apiuser, S_x}
CallerPasswords == {S_apipass, S_x}

RouteRequests(u, p) ==
    {Request("list_incidents", u, p, "", ps, pz, None, None, None) : ps \in PageVals, pz \in PageVals}
    \cup {Request("get_incident", u, p, id, None, None, None, None, None) : id \in Ids}
    \cup {Request("list_assets", u, p, "", ps, pz, t, f, fl) :
            ps \in PageVals, pz \in PageVals, t \in StrVals, f \in AssetFields, fl \in StrVals}
    \cup {Request("get_asset", u, p, id, None, None, None, None, None) : id \in Ids}
    \cup {Request("list_changes", u, p, "", None, None, None, f, None) : f \in ChangeFields}
    \cup {Request("get_change", u, p, id, None, None, None, f, None) : id \in Ids, f \in ChangeFields}

Requests == UNION {RouteRequests(u, p) : u \in CallerNames, p \in CallerPasswords}

HttpAnswer(status, body) == [kind |-> "response", status |-> status, body |-> body]
TransportError == [kind |-> "transport_error", status |-> 0, body |-> JInvalid]

Answers ==
    {HttpAnswer(200, b) : b \in Bodies}
    \cup {HttpAnswer(st, b) : st \in {404, 500}, b \in {JInvalid, EmptyObject}}
    \cup {TransportError}

----------------------------------------------------------------------------
(* Actions *)

\* the request in slot r ends with response `response`
Finish(r, response) ==
    /\ resp' = [resp EXCEPT ![r] = Some(response)]
    /\ pc' = [pc EXCEPT ![r] = "done"]

\* an inbound request arrives in a free slot
Receive(r, R) ==
    /\ pc[r] = "idle"
    /\ \E q \in R : req' = [req EXCEPT ![r] = q]
    /\ pc' = [pc EXCEPT ![r] = "auth"]
    /\ UNCHANGED <<env, API_USERNAME, API_PASSWORD, client, outbound, answer, ret, resp>>

\* Depends(verify_basic_auth) runs before the route body
Authenticate(r) ==
    /\ pc[r] = "auth"
    /\ LET a == verify_basic_auth(req[r].username, req[r].password)
       IN  IF a.ok
           THEN /\ pc' = [pc EXCEPT ![r] = "handler"]
                /\ UNCHANGED resp
           ELSE Finish(r, a.resp)
    /\ UNCHANGED <<env, API_USERNAME, API_PASSWORD, req, client, outbound, answer, ret>>

\* a route body up to the outbound GET of its client method; `valid` is the
\* validation of the route's own parameters, `prepared` the GET the client
\* method builds on the client of get_topdesk_client
Call(r, route, valid, prepared) ==
    /\ pc[r] = "handler"
    /\ req[r].route = route
    /\ IF ~valid
       THEN /\ Finish(r, Unprocessable)
            /\ UNCHANGED <<client, outbound>>
       ELSE LET c == get_topdesk_client
            IN  IF c.raised
                THEN /\ Finish(r, ServerError)
                     /\ UNCHANGED <<client, outbound>>
                ELSE /\ client' = [client EXCEPT ![r] = Some(c.val)]
                     /\ outbound' = [outbound EXCEPT
                                       ![r] = session_get(outbound[r], c.val, prepared)]
                     /\ pc' = [pc EXCEPT ![r] = "waiting"]
                     /\ UNCHANGED resp
    /\ UNCHANGED <<env, API_USERNAME, API_PASSWORD, req, answer, ret>>

\* the external API (or the transport) answers the pending GET
Upstream(r, A) ==
    /\ pc[r] = "waiting"
    /\ \E a \in A : answer' = [answer EXCEPT ![r] = Some(a)]
    /\ pc' = [pc EXCEPT ![r] = "returned"]
    /\ UNCHANGED <<env, API_USERNAME, API_PASSWORD, req, client, outbound, ret, resp>>

\* mutant of AnswerOf: the response object is kept in one place shared by all workers
AnswerOf_shared(r) == Val(answer[CHOOSE s \in Slots : answer[s] # None])

\* the answer the client method of slot r decodes
AnswerOf(r) == Val(answer[r])

\* the rest of a route body: `out` is what the client method makes of the
\* answer; the route returns its value or, on any exception, `empty`
Return(r, route, out, empty) ==
    /\ pc[r] = "returned"
    /\ req[r].route = route
    /\ ret' = [ret EXCEPT ![r] = Some(out)]
    /\ Finish(r, TryReturn(route, out, empty))
    /\ UNCHANGED <<env, API_USERNAME, API_PASSWORD, req, client, outbound, answer>>

\* client = get_topdesk_client()
NewClient == get_topdesk_client.val

list_incidents(r) ==
    \/ Call(r, "list_incidents", TRUE,
            Client_list_incidents_req(NewClient, req[r].pageStart, req[r].pageSize))
    \/ Return(r, "list_incidents", Client_list_incidents_res(AnswerOf(r)), EmptyList)

get_incident(r) ==
    \/ Call(r, "get_incident", TRUE, get_incident_by_id_req(NewClient, req[r].id))
    \/ Return(r, "get_incident", get_incident_by_id_res(AnswerOf(r)), EmptyObject)

list_assets(r) ==
    \/ Call(r, "list_assets", TRUE,
            get_transaction_assets_req(NewClient, req[r].template_id,
                                       FieldsList(req[r].fields), req[r].filter,
                                       req[r].pageStart, req[r].pageSize))
    \/ Return(r, "list_assets", get_transaction_assets_res(AnswerOf(r)), EmptyList)

get_asset(r) ==
    \/ Call(r, "get_asset", TRUE, get_asset_by_id_req(NewClient, req[r].id))
    \/ Return(r, "get_asset", get_asset_by_id_res(AnswerOf(r)), EmptyObject)

\* `fields: Optional[str]` has no default: the query parameter is required
list_changes(r) ==
    \/ Call(r, "list_changes", req[r].fields # None,
            Client_list_changes_req(NewClient, req[r].fields))
    \/ Return(r, "list_changes", Client_list_changes_res(AnswerOf(r)), EmptyList)

get_change(r) ==
    \/ Call(r, "get_change", req[r].fields # None,
            get_change_by_id_req(NewClient, req[r].id, req[r].fields))
    \/ Return(r, "get_change", get_change_by_id_res(AnswerOf(r)), EmptyObject)

\* the response is sent; everything request-scoped is dropped
Deliver(r) ==
    /\ pc[r] = "done"
    /\ pc' = [pc EXCEPT ![r] = "idle"]
    /\ req' = [req EXCEPT ![r] = NoRequest]
    /\ client' = [client EXCEPT ![r] = None]
    /\ outbound' = [outbound EXCEPT ![r] = <<>>]
    /\ answer' = [answer EXCEPT ![r] = None]
    /\ ret' = [ret EXCEPT ![r] = None]
    /\ resp' = [resp EXCEPT ![r] = None]
    /\ UNCHANGED <<env, API_USERNAME, API_PASSWORD>>

----------------------------------------------------------------------------
(* Specifications *)

EnvNames == {"TOPDESK_USER", "TOPDESK_API_KEY", "API_USERNAME", "API_PASSWORD"}

\* load: the environment is whatever the deployment set; the expected caller
\* credentials are read from it once
Load(E) ==
    /\ env \in E
    /\ API_USERNAME = getenv("API_USERNAME", S_apiuser)
    /\ API_PASSWORD = getenv("API_PASSWORD", S_apipass)
    /\ pc = [r \in Slots |-> "idle"]
    /\ req = [r \in Slots |-> NoRequest]
    /\ client = [r \in Slots |-> None]
    /\ outbound = [r \in Slots |-> <<>>]
    /\ answer = [r \in Slots |-> None]
    /\ ret = [r \in Slots |-> None]
    /\ resp = [r \in Slots |-> None]

\* the deployments checked: the outbound credentials unset, empty or set while
\* the expected caller credentials keep their defaults, and expected caller
\* credentials that are not ASCII
Environments ==
    {e \in [EnvNames -> {None, Some(S_empty), Some(S_x), Some(S_nonascii)}] :
        /\ e["TOPDESK_USER"] \in {None, Some(S_empty), Some(S_x)}
        /\ e["TOPDESK_API_KEY"] \in {None, Some(S_empty), Some(S_x)}
        /\ e["API_USERNAME"] \in {None, Some(S_nonascii)}
        /\ e["API_PASSWORD"] \in {None, Some(S_nonascii)}
        /\ (e["API_USERNAME"] # None \/ e["API_PASSWORD"] # None)
               => (e["TOPDESK_USER"] = None /\ e["TOPDESK_API_KEY"] = None)}

Init == Load(Environments)

\* one step of the request in slot r; R are the requests that may arrive and
\* A the answers the external API may give
Step(r, R, A) ==
    \/ Receive(r, R)
    \/ Authenticate(r)
    \/ list_incidents(r)
    \/ get_incident(r)
    \/ list_assets(r)
    \/ get_asset(r)
    \/ list_changes(r)
    \/ get_change(r)
    \/ Upstream(r, A)
    \/ Deliver(r)

\* one worker: requests are handled one after the other
Next == \E r \in {1} : Step(r, Requests, Answers)

Spec == Init /\ [][Next]_vars

\* the requests, answers and deployments of the concurrent specification
ConcRequests ==
    UNION {{Request("list_incidents", u, p, "", Some(1), None, None, None, None),
            Request("get_incident", u, p, "123", None, None, None, None, None),
            Request("list_assets", u, p, "", None, None, Some(S_x), Some(<<97, Comma, 97>>), None),
            Request("get_asset", u, p, "123", None, None, None, None, None),
            Request("list_changes", u, p, "", None, None, None, Some(S_all), None),
            Request("list_changes", u, p, "", None, None, None, None, None),
            Request("get_change", u, p, "123", None, None, None, Some(S_all), None)} :
           u \in {S_apiuser}, p \in CallerPasswords}

ConcAnswers ==
    {HttpAnswer(200, JObject({[k |-> "dataSet", v |-> JArray(<<"R1">>)]})),
     HttpAnswer(200, JObject({[k |-> "results", v |-> JArray(<<>>)]})),
     HttpAnswer(200, JArray(<<"R1">>)),
     HttpAnswer(500, JInvalid),
     TransportError}

ConcEnvironments ==
    {e \in Environments : e["API_USERNAME"] = None /\ e["API_PASSWORD"] = None
                          /\ e["TOPDESK_API_KEY"] = None /\ e["TOPDESK_USER"] # Some(S_x)}

InitConc == Load(ConcEnvironments)

\* a worker per slot: the steps of concurrent requests interleave
NextConc == \E r \in Slots : Step(r, ConcRequests, ConcAnswers)

SpecConc == InitConc /\ [][NextConc]_vars

----------------------------------------------------------------------------
(* Properties *)

CredsMatch(r) == req[r].username = API_USERNAME /\ req[r].password = API_PASSWORD
PastAuth(r) == pc[r] \in {"handler", "waiting", "returned", "done"}
EmptyOf(route) == IF route \in ListRoutes THEN EmptyList ELSE EmptyObject
OutboundEnvEmpty == env["TOPDESK_USER"] = Some(S_empty) \/ env["TOPDESK_API_KEY"] = Some(S_empty)

\* C1: once the credentials of a request have been checked, the request went on
\* exactly when both fields equal the configured values, and in every other case
\* it ended with 401 and the header WWW-Authenticate: Basic.
C1_AuthExact ==
    \A r \in Slots :
        PastAuth(r) =>
            IF CredsMatch(r)
            THEN resp[r] # Some(Unauthorized)
            ELSE pc[r] = "done" /\ resp[r] = Some(Unauthorized)

\* C2: nothing is processed for a request whose credentials do not match: a
\* client, an outbound GET, an upstream answer or a client result exists for a
\* request only after its authentication succeeded, and a request answered 401
\* has no client and no outbound GET.
C2_NoProcessingWithoutAuth ==
    \A r \in Slots :
        /\ (client[r] # None \/ outbound[r] # <<>> \/ answer[r] # None \/ ret[r] # None)
               => (CredsMatch(r) /\ PastAuth(r))
        /\ (resp[r] # None /\ Val(resp[r]).status = 401)
               => (client[r] = None /\ outbound[r] = <<>> /\ pc[r] = "done")

C2_Witness ==
    \E r \in Slots :
        /\ pc[r] = "done" /\ resp[r] = Some(Unauthorized)
        /\ req[r].route = "get_asset"
        /\ req[r].username = API_USERNAME /\ req[r].password # API_PASSWORD
        /\ outbound[r] = <<>>

\* the upstream answer of slot r is a failure: transport error, non-2xx status,
\* a body that does not decode, or (envelope routes) a body that is no object
UpstreamFailed(r) ==
    LET a == Val(answer[r])
    IN  \/ a.kind = "transport_error"
        \/ a.status < 200 \/ a.status > 299
        \/ a.body.t = "invalid"
        \/ (req[r].route \in {"list_assets", "list_changes"} /\ a.body.t # "object")

C4_FieldsOptional ==
    \A r \in Slots :
        (/\ pc[r] = "done"
         /\ req[r].route \in {"list_changes", "get_change"}
         /\ req[r].fields = None
         /\ CredsMatch(r)
         /\ ~OutboundEnvEmpty)
            => /\ Len(outbound[r]) = 1
               /\ "fields" \notin Keys(outbound[r][1].query)
               /\ (req[r].route = "list_changes" /\ answer[r] = Some(HttpAnswer(500, JInvalid)))
                      => resp[r] = Some(Ok(EmptyList))

\* C5: a request never has more than one outbound GET; a called client method
\* has issued exactly one; an answer (failure included) is never followed by a
\* second GET; every response built from a client result rests on the
\* request's own single GET and its answer.
C5_AtMostOneGet ==
    \A r \in Slots :
        /\ Len(outbound[r]) <= 1
        /\ (pc[r] \in {"waiting", "returned"} \/ answer[r] # None \/ ret[r] # None)
               => Len(outbound[r]) = 1
        /\ (pc[r] = "done" /\ Val(resp[r]).status = 200)
               => (Len(outbound[r]) = 1 /\ answer[r] # None /\ ret[r] # None)

C5_Witness ==
    \E r \in Slots :
        /\ pc[r] = "done" /\ req[r].route = "list_incidents"
        /\ answer[r] = Some(TransportError)
        /\ Len(outbound[r]) = 1

\* the query has exactly one entry for key, with value v
HasParam(query, key, v) == ValuesOf(query, key) = <<[k |-> key, v |-> v]>>

\* the paging keys of the query appear exactly when the argument is not None,
\* a value of 0 included
PagingExact(q, query) ==
    /\ IF q.pageStart # None THEN HasParam(query, "pageStart", IntToStr(Val(q.pageStart)))
                             ELSE "pageStart" \notin Keys(query)
    /\ IF q.pageSize # None THEN HasParam(query, "pageSize", IntToStr(Val(q.pageSize)))
                            ELSE "pageSize" \notin Keys(query)

\* C6 as stated: on list incidents and list assets a key is in the upstream
\* query exactly when its argument was provided, empty strings included.
C6_KeysIffProvided ==
    \A r \in Slots :
        (req[r].route \in {"list_incidents", "list_assets"} /\ Len(outbound[r]) = 1)
            => LET q == req[r]
                   query == outbound[r][1].query
               IN  /\ PagingExact(q, query)
                   /\ IF q.template_id # None
                      THEN HasParam(query, "templateId", Val(q.template_id))
                      ELSE "templateId" \notin Keys(query)
                   /\ IF q.filter # None
                      THEN HasParam(query, "$filter", Val(q.filter))
                      ELSE "$filter" \notin Keys(query)
                   /\ ("field" \in Keys(query)) <=> (FieldsList(q.fields) # None)
                   /\ Keys(query) \subseteq {"templateId", "field", "$filter", "pageStart", "pageSize"}

\* C6 amended: pageStart and pageSize appear exactly when provided (0 included);
\* templateId and $filter appear exactly when provided and not the empty
\* string; field appears exactly when a field list was passed; no other key.
C6_KeysIffProvidedNonEmpty ==
    \A r \in Slots :
        (req[r].route \in {"list_incidents", "list_assets"} /\ Len(outbound[r]) = 1)
            => LET q == req[r]
                   query == outbound[r][1].query
               IN  /\ PagingExact(q, query)
                   /\ IF q.template_id # None /\ Val(q.template_id) # S_empty
                      THEN HasParam(query, "templateId", Val(q.template_id))
                      ELSE "templateId" \notin Keys(query)
                   /\ IF q.filter # None /\ Val(q.filter) # S_empty
                      THEN HasParam(query, "$filter", Val(q.filter))
                      ELSE "$filter" \notin Keys(query)
                   /\ ("field" \in Keys(query)) <=> (FieldsList(q.fields) # None)
                   /\ Keys(query) \subseteq {"templateId", "field", "$filter", "pageStart", "pageSize"}

C6_Witness ==
    \E r \in Slots :
        /\ req[r].route = "list_assets" /\ Len(outbound[r]) = 1
        /\ req[r].template_id = Some(S_empty)
        /\ req[r].filter = Some(S_x)
        /\ req[r].pageStart = Some(0)
        /\ req[r].pageSize = None
        /\ Keys(outbound[r][1].query) = {"$filter", "pageStart"}

\* the value a successful envelope body holds under key, [] when it has none
Enveloped(body, key) ==
    LET under == {m.v : m \in {n \in body.members : n.k = key}}
    IN  IF under = {} THEN JArray(<<>>) ELSE CHOOSE v \in under : TRUE

EnvelopeKey(route) == IF route = "list_assets" THEN "dataSet" ELSE "results"

\* C7: on a successful object body, list assets returns the value under
\* `dataSet` and list changes the value under `results`, unchanged, whatever
\* else the envelope holds; [] when the key is absent or maps to [].
C7_Unwrap ==
    \A r \in Slots :
        (/\ req[r].route \in {"list_assets", "list_changes"}
         /\ ret[r] # None
         /\ Val(answer[r]).kind = "response"
         /\ Val(answer[r]).status = 200
         /\ Val(answer[r]).body.t = "object")
            => ret[r] = Some([raised |-> FALSE,
                              val |-> Enveloped(Val(answer[r]).body, EnvelopeKey(req[r].route))])

C7_Witness ==
    \E r \in Slots :
        /\ req[r].route = "list_assets" /\ ret[r] # None
        /\ Val(answer[r]) = HttpAnswer(200, JObject({[k |-> "dataSet", v |-> JArray(<<"R1">>)],
                                                     [k |-> "results", v |-> JArray(<<>>)]}))
        /\ Val(ret[r]).val = JArray(<<"R1">>)
        /\ resp[r] = Some(Ok(JArray(<<"R1">>)))

RECURSIVE JoinComma(_)
JoinComma(parts) ==
    IF Len(parts) = 0 THEN <<>>
    ELSE IF Len(parts) = 1 THEN parts[1]
    ELSE parts[1] \o <<Comma>> \o JoinComma(Tail(parts))

Blank(s) == \A i \in 1..Len(s) : s[i] \in Whitespace
Commas(s) == Cardinality({i \in 1..Len(s) : s[i] = Comma})

\* the `field` values of a query, in order
FieldEntries(query) ==
    LET es == ValuesOf(query, "field") IN [i \in 1..Len(es) |-> es[i].v]

C10_EmptyEnvServerError ==
    \A r \in Slots :
        (pc[r] = "done" /\ CredsMatch(r) /\ OutboundEnvEmpty)
            => (resp[r] = Some(ServerError) /\ client[r] = None /\ outbound[r] = <<>>)

\* the six routes as a function of the request: parameter validation, the
\* GET the client method builds, the value it decodes
ValidFor(q) == (q.route \in {"list_changes", "get_change"}) => (q.fields # None)

PrepareFor(q, c) ==
    CASE q.route = "list_incidents" -> Client_list_incidents_req(c, q.pageStart, q.pageSize)
      [] q.route = "get_incident" -> get_incident_by_id_req(c, q.id)
      [] q.route = "list_assets" ->
            get_transaction_assets_req(c, q.template_id, FieldsList(q.fields), q.filter,
                                       q.pageStart, q.pageSize)
      [] q.route = "get_asset" -> get_asset_by_id_req(c, q.id)
      [] q.route = "list_changes" -> Client_list_changes_req(c, q.fields)
      [] q.route = "get_change" -> get_change_by_id_req(c, q.id, q.fields)

DecodeFor(q, a) ==
    CASE q.route = "list_incidents" -> Client_list_incidents_res(a)
      [] q.route = "get_incident" -> get_incident_by_id_res(a)
      [] q.route = "list_assets" -> get_transaction_assets_res(a)
      [] q.route = "get_asset" -> get_asset_by_id_res(a)
      [] q.route = "list_changes" -> Client_list_changes_res(a)
      [] q.route = "get_change" -> get_change_by_id_res(a)

\* whether request q gets as far as its outbound GET
Delegated(q) ==
    verify_basic_auth(q.username, q.password).ok /\ ValidFor(q) /\ ~get_topdesk_client.raised

\* the response to request q given the answer a (Optional) to its own GET
ResponseFor(q, a) ==
    IF ~verify_basic_auth(q.username, q.password).ok
    THEN verify_basic_auth(q.username, q.password).resp
    ELSE IF ~ValidFor(q) THEN Unprocessable
    ELSE IF get_topdesk_client.raised THEN ServerError
    ELSE TryReturn(q.route, DecodeFor(q, Val(a)), EmptyOf(q.route))

\* the outbound GETs of request q
OutboundFor(q) ==
    IF Delegated(q)
    THEN session_get(<<>>, get_topdesk_client.val, PrepareFor(q, get_topdesk_client.val))
    ELSE <<>>

SlotState(r) == <<pc[r], req[r], client[r], outbound[r], answer[r], ret[r], resp[r]>>

\* C9 (state part): in every interleaving the response, the outbound GET and
\* the client of a request are those its own credentials, route, parameters,
\* the configuration and the answer to its own GET determine.
OwnInputsDecide ==
    \A r \in Slots :
        /\ pc[r] = "done" => resp[r] = Some(ResponseFor(req[r], answer[r]))
        /\ outbound[r] # <<>> => outbound[r] = OutboundFor(req[r])
        /\ client[r] # None => client[r] = Some(get_topdesk_client.val)
        /\ PastAuth(r) /\ resp[r] # Some(Unauthorized) => CredsMatch(r)

\* C9 (step part): the configuration is never written after load and a step
\* changes the state of one request only.
OneRequestPerStep ==
    /\ env' = env /\ API_USERNAME' = API_USERNAME /\ API_PASSWORD' = API_PASSWORD
    /\ \E r \in Slots : \A s \in Slots \ {r} : SlotState(s)' = SlotState(s)

\* C9: under any interleaving of concurrently handled requests each request is
\* decided by its own inputs, the configuration and the answer to its own GET;
\* no step of one request touches another or the configuration.
C9_Isolation == [](OwnInputsDecide) /\ [][OneRequestPerStep]_vars

C9_Witness ==
    /\ pc[1] = "done" /\ pc[2] = "done"
    /\ req[1].route = "list_assets" /\ req[2].route = "list_assets"
    /\ req[1].password = S_apipass /\ req[2].password = S_apipass
    /\ answer[1] = Some(HttpAnswer(500, JInvalid))
    /\ answer[2] = Some(HttpAnswer(200, JObject({[k |-> "dataSet", v |-> JArray(<<"R1">>)]})))
    /\ resp[1] = Some(Ok(EmptyList))
    /\ resp[2] = Some(Ok(JArray(<<"R1">>)))

====
